---- MODULE Spec2Model ----
(***************************************************************************)
(* Model of the three AI endpoints of app.py: generate_caption,            *)
(* generate_image and analyze_image, together with the two provider        *)
(* handles (openai_client, gemini_model) built at process start.           *)
(*                                                                         *)
(* Text is a sequence of one-character strings; JSON null and a missing    *)
(* key are the one-element sequences Null and Absent.  A formatted string  *)
(* (f-string) is the concatenation of its literal pieces and its fields.   *)
(* Every outbound call is appended to `calls` with its argument and its    *)
(* outcome (a returned value or a raised exception).                       *)
(***************************************************************************)
EXTENDS Integers, Sequences, FiniteSets, TLC

VARIABLES openai_client, gemini_model, pc, data, prompt, calls, log, resp

vars == <<openai_client, gemini_model, pc, data, prompt, calls, log, resp>>

\* Longest text a client or a provider sends.
MaxLen == 2

Whitespace == {" "}

Chars == Whitespace \cup {"f"}

Strings == UNION {[1..n -> Chars] : n \in 0..MaxLen}

\* JSON null / Python None.
Null == <<"<null>">>

\* The key is not in the JSON body.
Absent == <<"<absent>">>

\* The same for the fields the model keeps as one token.
AbsentKey == "<absent>"

\* Exception details a provider or the HTTP client can raise.
Excs == {"e1", "e2"}

NoResp == [status |-> 0, key |-> "", val |-> <<>>]

Json(status, key, val) == [status |-> status, key |-> key, val |-> val]

Raise(e) == [kind |-> "raise", val |-> <<e>>]

Return(v) == [kind |-> "return", val |-> v]

Call(api, arg, result) == [api |-> api, arg |-> arg, result |-> result]

\* str.strip(): drop leading and trailing whitespace.
RECURSIVE LStrip(_)
LStrip(s) ==
    IF s = <<>> THEN <<>>
    ELSE IF Head(s) \in Whitespace THEN LStrip(Tail(s)) ELSE s

RECURSIVE RStrip(_)
RStrip(s) ==
    IF s = <<>> THEN <<>>
    ELSE IF s[Len(s)] \in Whitespace THEN RStrip(SubSeq(s, 1, Len(s) - 1)) ELSE s

Strip(s) == RStrip(LStrip(s))

\* (x or ""): None and "" both give "".
OrEmpty(v) == IF v = Null \/ v = <<>> THEN <<>> ELSE v

\* dict.get(key, default) for a sequence-valued field.
Get(v, default) == IF v = Absent THEN default ELSE v

\* dict.get(key, default) for a token-valued field.
GetKey(v, default) == IF v = AbsentKey THEN default ELSE v

\* Truthiness of a provider handle, by provider name.
Configured(backend) == IF backend = "gemini" THEN gemini_model ELSE openai_client

\* The request has been answered: the worker takes the next one.
NoData == [route |-> "none"]

(***************************************************************************)
(* generate_caption                                                        *)
(***************************************************************************)

Topics == {Absent, Null, <<>>, <<"f">>}

ContentTypes == {AbsentKey, "Caption", "Hook", "CTA", "Hashtags", "Story"}

ModelChoices == {AbsentKey, "openai", "gemini", "claude"}

CaptionBodies ==
    [route : {"generate-caption"},
     topic : Topics,
     platform : {AbsentKey, "instagram"},
     tone : {AbsentKey, "witty"},
     contentType : ContentTypes,
     language : {AbsentKey, "English"},
     keywords : {Absent, <<"f">>},
     model_choice : ModelChoices,
     brand_voice : {Absent, <<>>, <<"f">>}]

content_map ==
    [Caption |-> "a full caption (including a hook, body, and CTA)",
     Hook |-> "only a compelling hook",
     CTA |-> "only a strong call-to-action (CTA)",
     Hashtags |-> "a list of 10 relevant hashtags"]

\* content_map.get(content_type, 'a full caption')
requested_content(content_type) ==
    IF content_type \in DOMAIN content_map
    THEN content_map[content_type]
    ELSE "a full caption"

\* A value interpolated in an f-string: None prints as "None".
Fmt(v) == IF v = Null THEN <<"None">> ELSE v

\* The prompt of generate_caption for the JSON body d.
BuildPrompt(d) ==
    LET topic == d.topic
        platform == GetKey(d.platform, "social")
        tone == GetKey(d.tone, "neutral")
        content_type == GetKey(d.contentType, "Caption")
        language == GetKey(d.language, "Greek")
        keywords == Get(d.keywords, <<>>)
        brand_voice == Get(d.brand_voice, <<>>)
        voice == IF brand_voice # <<>>
                 THEN <<"SPECIAL INSTRUCTION: Adhere strictly to the following brand voice: '">>
                      \o brand_voice \o <<"'.\n\n">>
                 ELSE <<>>
    IN  voice
        \o <<"Generate 3 distinct options for ", requested_content(content_type),
             " for a ", platform, " post.\n", "The main topic is: '">>
        \o Fmt(topic)
        \o <<"'.\n", "The desired tone is: ", tone, ".\n", "Keywords to include: ">>
        \o (IF keywords # <<>> THEN keywords ELSE <<"None">>)
        \o <<".\n", "The output language must be strictly ", language, ".\n",
             "Structure the output as a numbered list.">>

\* Mutant of SelectBackend: model_choice is ignored.
SelectBackendOpenAI(model_choice) == "openai"

\* The branch of `if model_choice == 'gemini'`.
SelectBackend(model_choice) == IF model_choice = "gemini" THEN "gemini" ELSE "openai"

\* The provider method the branch calls.
TextApi(backend) ==
    IF backend = "gemini" THEN "gemini.generate_content"
    ELSE "openai.chat.completions.create"

\* The ConnectionError the branch raises for a handle that is None.
NotInitialized(backend) ==
    IF backend = "gemini" THEN "Gemini client not initialized."
    ELSE "OpenAI client not initialized."

\* The response of the except clause of generate_caption.
ErrorVia(model_choice) ==
    Json(500, "error", <<"An error occurred with the ", model_choice, " API.">>)

\* Mutant of CaptionResponse: the empty-text check is missing.
CaptionResponseUnchecked(generated_text) == Json(200, "caption", generated_text)

\* The response for the stripped text a provider returned.
CaptionResponse(generated_text) ==
    IF generated_text = <<>>
    THEN Json(502, "error", <<"Empty response from the AI model.">>)
    ELSE Json(200, "caption", generated_text)

\* What a text or vision provider call can do: raise, or return text or None.
TextOutcomes ==
    {Raise(e) : e \in Excs} \cup {Return(t) : t \in Strings \cup {Null}}

\* Request parsing, the topic check and the prompt construction.
GenerateCaption ==
    /\ pc = "idle"
    /\ \E d \in CaptionBodies :
        /\ data' = d
        /\ IF d.topic = Absent
           THEN /\ resp' = Json(400, "error", <<"Topic is required">>)
                /\ prompt' = <<>>
                /\ pc' = "done"
           ELSE /\ resp' = NoResp
                /\ prompt' = BuildPrompt(d)
                /\ pc' = "text_backend"
    /\ UNCHANGED <<openai_client, gemini_model, calls, log>>

\* The try block: backend selection, the call and the response.
TextBackend ==
    /\ pc = "text_backend"
    /\ LET model_choice == GetKey(data.model_choice, "openai")
           backend == SelectBackend(model_choice)
           via == <<"AI generation error via ", model_choice>>
       IN  IF ~Configured(backend)
           THEN /\ calls' = calls
                /\ log' = Append(log, [msg |-> via, exc |-> NotInitialized(backend)])
                /\ resp' = ErrorVia(model_choice)
           ELSE \E r \in TextOutcomes :
                /\ calls' = Append(calls, Call(TextApi(backend), prompt, r))
                /\ IF r.kind = "raise"
                   THEN /\ log' = Append(log, [msg |-> via, exc |-> r.val[1]])
                        /\ resp' = ErrorVia(model_choice)
                   ELSE /\ log' = log
                        /\ resp' = CaptionResponse(Strip(OrEmpty(r.val)))
    /\ pc' = "done"
    /\ UNCHANGED <<openai_client, gemini_model, data, prompt>>

(***************************************************************************)
(* generate_image                                                          *)
(***************************************************************************)

ImageBodies ==
    [route : {"generate-image"},
     prompt : {Absent} \cup Strings,
     style : {AbsentKey, "cartoon"}]

\* A step of a handler: where it goes next and what it has answered.
Step(next, response) == [pc |-> next, resp |-> response]

\* Mutant of ImageEntry: the prompt is checked without being stripped.
ImageEntryNoStrip(d) ==
    IF ~openai_client
    THEN Step("done", Json(500, "error", <<"OpenAI client is not configured.">>))
    ELSE IF Get(d.prompt, <<>>) = <<>>
         THEN Step("done", Json(400, "error", <<"Image prompt is required">>))
         ELSE Step("image_backend", NoResp)

\* The handle check and the prompt check that open generate_image.
ImageEntry(d) ==
    IF ~openai_client
    THEN Step("done", Json(500, "error", <<"OpenAI client is not configured.">>))
    ELSE IF Strip(Get(d.prompt, <<>>)) = <<>>
         THEN Step("done", Json(400, "error", <<"Image prompt is required">>))
         ELSE Step("image_backend", NoResp)

\* full_prompt = f"{prompt}, in a {style} style."
FullPrompt(d) ==
    Strip(Get(d.prompt, <<>>))
    \o <<", in a ", GetKey(d.style, "photorealistic"), " style.">>

\* images.generate raises or returns the URL of the one image.
ImageOutcomes == {Raise(e) : e \in Excs} \cup {Return(<<"https://img/1">>)}

GenerateImage ==
    /\ pc = "idle"
    /\ \E d \in ImageBodies :
        /\ data' = d
        /\ pc' = ImageEntry(d).pc
        /\ resp' = ImageEntry(d).resp
        /\ prompt' = IF ImageEntry(d).pc = "image_backend" THEN FullPrompt(d) ELSE <<>>
    /\ UNCHANGED <<openai_client, gemini_model, calls, log>>

\* The try block of generate_image.
ImageBackend ==
    /\ pc = "image_backend"
    /\ \E r \in ImageOutcomes :
        /\ calls' = Append(calls, Call("openai.images.generate", prompt, r))
        /\ IF r.kind = "raise"
           THEN /\ log' = Append(log, [msg |-> <<"DALL-E image generation failed">>,
                                       exc |-> r.val[1]])
                /\ resp' = Json(500, "error", <<"Failed to generate image.">>)
           ELSE /\ log' = log
                /\ resp' = Json(200, "image_url", r.val)
    /\ pc' = "done"
    /\ UNCHANGED <<openai_client, gemini_model, data, prompt>>

(***************************************************************************)
(* analyze_image                                                           *)
(***************************************************************************)

AnalyzeBodies ==
    [route : {"analyze-image"},
     image_url : {Absent, Null} \cup Strings]

\* image_url = (data.get('image_url') or '').strip()
ImageUrl(d) == Strip(OrEmpty(Get(d.image_url, Null)))

VisionInstruction ==
    "Describe this image in detail for a social media post. Be descriptive and engaging. The description should be in Greek."

\* Step 2 opens with the check of the OpenAI handle.
SecondaryEntry ==
    IF ~openai_client
    THEN Step("done", Json(500, "error", <<"No available AI provider for image analysis.">>))
    ELSE Step("openai_vision", NoResp)

\* Mutant of AnalyzeEntry: step 1 runs without the check of the Gemini handle.
AnalyzeEntryNoHandleCheck(image_url) ==
    IF image_url = <<>>
    THEN Step("done", Json(400, "error", <<"Image URL is required">>))
    ELSE Step("fetch", NoResp)

\* The URL check, then step 1 if Gemini is configured, else step 2.
AnalyzeEntry(image_url) ==
    IF image_url = <<>>
    THEN Step("done", Json(400, "error", <<"Image URL is required">>))
    ELSE IF gemini_model THEN Step("fetch", NoResp) ELSE SecondaryEntry

\* Mutant of PrimaryExcept: a failed fetch or Gemini call is a bad request.
PrimaryExceptBadRequest == Step("done", Json(400, "error", <<"Image URL is required">>))

\* The except clause of step 1: log and fall through to step 2.
PrimaryExcept == SecondaryEntry

\* Mutant of PrimaryOutcome: the text of Gemini is not returned.
PrimaryOutcomeFallsThrough(text) == SecondaryEntry

\* The stripped text of Gemini: answer if there is any, else fall through.
PrimaryOutcome(text) ==
    IF text # <<>> THEN Step("done", Json(200, "description", text)) ELSE SecondaryEntry

\* Mutant of VisionResponse: the empty-text check is missing.
VisionResponseUnchecked(text) == Json(200, "description", text)

\* The response for the stripped text of OpenAI.
VisionResponse(text) ==
    IF text = <<>>
    THEN Json(502, "error", <<"Empty response from the AI model.">>)
    ELSE Json(200, "description", text)

\* requests.get raises, or returns a response whose raise_for_status raises
\* (an HTTP error status), or returns the image.
FetchOutcomes ==
    {Raise(e) : e \in Excs} \cup {Raise("HTTPError"), Return(<<"<image bytes>">>)}

PrimaryLog(e) ==
    [msg |-> <<"Gemini image analysis failed, falling back to OpenAI">>, exc |-> e]

AnalyzeImage ==
    /\ pc = "idle"
    /\ \E d \in AnalyzeBodies :
        /\ data' = d
        /\ pc' = AnalyzeEntry(ImageUrl(d)).pc
        /\ resp' = AnalyzeEntry(ImageUrl(d)).resp
    /\ UNCHANGED <<openai_client, gemini_model, prompt, calls, log>>

\* Step 1, first half: the image is fetched from image_url.
FetchImage ==
    /\ pc = "fetch"
    /\ \E r \in FetchOutcomes :
        /\ calls' = Append(calls, Call("requests.get", ImageUrl(data), r))
        /\ IF r.kind = "raise"
           THEN /\ log' = Append(log, PrimaryLog(r.val[1]))
                /\ pc' = PrimaryExcept.pc
                /\ resp' = PrimaryExcept.resp
           ELSE /\ log' = log
                /\ pc' = "gemini_vision"
                /\ resp' = NoResp
    /\ UNCHANGED <<openai_client, gemini_model, data, prompt>>

\* Step 1, second half: Gemini is asked to describe the image bytes.
GeminiVision ==
    /\ pc = "gemini_vision"
    /\ \E r \in TextOutcomes :
        /\ calls' = Append(calls, Call("gemini.generate_content",
                                       <<"<image bytes>", VisionInstruction>>, r))
        /\ IF r.kind = "raise"
           THEN /\ log' = Append(log, PrimaryLog(r.val[1]))
                /\ pc' = PrimaryExcept.pc
                /\ resp' = PrimaryExcept.resp
           ELSE /\ log' = log
                /\ pc' = PrimaryOutcome(Strip(OrEmpty(r.val))).pc
                /\ resp' = PrimaryOutcome(Strip(OrEmpty(r.val))).resp
    /\ UNCHANGED <<openai_client, gemini_model, data, prompt>>

\* Step 2: OpenAI is asked to describe the image at image_url.
OpenAIVision ==
    /\ pc = "openai_vision"
    /\ \E r \in TextOutcomes :
        /\ calls' = Append(calls, Call("openai.chat.completions.create",
                                       <<VisionInstruction>> \o ImageUrl(data), r))
        /\ IF r.kind = "raise"
           THEN /\ log' = Append(log, [msg |-> <<"OpenAI image analysis failed">>,
                                       exc |-> r.val[1]])
                /\ resp' = Json(500, "error", <<"Failed to analyze image.">>)
           ELSE /\ log' = log
                /\ resp' = VisionResponse(Strip(OrEmpty(r.val)))
    /\ pc' = "done"
    /\ UNCHANGED <<openai_client, gemini_model, data, prompt>>

\* The response is sent and the request's locals are dropped.
SendResponse ==
    /\ pc = "done"
    /\ pc' = "idle"
    /\ data' = NoData
    /\ prompt' = <<>>
    /\ calls' = <<>>
    /\ log' = <<>>
    /\ resp' = NoResp
    /\ UNCHANGED <<openai_client, gemini_model>>

\* Process start: each handle is a client or None.
Init ==
    /\ openai_client \in BOOLEAN
    /\ gemini_model \in BOOLEAN
    /\ pc = "idle"
    /\ data = NoData
    /\ prompt = <<>>
    /\ calls = <<>>
    /\ log = <<>>
    /\ resp = NoResp

Next ==
    \/ GenerateCaption
    \/ TextBackend
    \/ GenerateImage
    \/ ImageBackend
    \/ AnalyzeImage
    \/ FetchImage
    \/ GeminiVision
    \/ OpenAIVision
    \/ SendResponse

Spec == Init /\ [][Next]_vars

(***************************************************************************)
(* Properties                                                              *)
(***************************************************************************)

\* Text with nothing but whitespace in it (the empty text included).
IsBlank(t) == \A i \in 1..Len(t) : t[i] \in Whitespace

\* s is t without its leading and trailing whitespace.
IsTrimOf(s, t) ==
    \E i \in 1..(Len(t) + 1), j \in 0..Len(t) :
        /\ s = SubSeq(t, i, j)
        /\ \A k \in 1..(i - 1) : t[k] \in Whitespace
        /\ \A k \in (j + 1)..Len(t) : t[k] \in Whitespace
        /\ s # <<>> => s[1] \notin Whitespace /\ s[Len(s)] \notin Whitespace

\* The calls of the request in progress to one provider method.
CallsTo(api) == {i \in 1..Len(calls) : calls[i].api = api}

\* The text a provider call returned, None read as "".
Returned(c) == IF c.result.val = Null THEN <<>> ELSE c.result.val

\* A call of the primary attempt of analyze_image that ended it without text.
PrimaryFailure(c) ==
    \/ c.api = "requests.get" /\ c.result.kind = "raise"
    \/ /\ c.api = "gemini.generate_content"
       /\ c.result.kind = "raise" \/ IsBlank(Returned(c))

\* What analyze_image answers for the outcome of the OpenAI call.
SecondaryAnswer(c, r) ==
    IF c.result.kind = "raise"
    THEN r = Json(500, "error", <<"Failed to analyze image.">>)
    ELSE IF IsBlank(Returned(c))
         THEN r = Json(502, "error", <<"Empty response from the AI model.">>)
         ELSE /\ r.status = 200
              /\ r.key = "description"
              /\ IsTrimOf(r.val, Returned(c))

\* C1: in analyze_image OpenAI is invoked (or about to be) only when Gemini
\* is not configured or the Gemini attempt has ended without non-blank
\* text; once Gemini has returned non-blank text the request is answered
\* 200 {description: text} and OpenAI is not invoked in that request.
C1_SecondaryOnlyAfterPrimary ==
    data.route = "analyze-image" =>
        /\ \A i \in CallsTo("openai.chat.completions.create") :
            \/ ~gemini_model /\ i = 1
            \/ gemini_model /\ \E j \in 1..(i - 1) : PrimaryFailure(calls[j])
        /\ pc = "openai_vision" =>
            \/ ~gemini_model /\ calls = <<>>
            \/ gemini_model /\ calls # <<>> /\ PrimaryFailure(calls[Len(calls)])
        /\ \A j \in CallsTo("gemini.generate_content") :
            (calls[j].result.kind = "return" /\ ~IsBlank(Returned(calls[j]))) =>
                /\ gemini_model
                /\ CallsTo("openai.chat.completions.create") = {}
                /\ pc = "done"
                /\ resp.status = 200
                /\ resp.key = "description"
                /\ IsTrimOf(resp.val, Returned(calls[j]))

\* C1 witness: both handles configured, Gemini returned " f", the answer is
\* 200 {description: "f"} and the only calls are the fetch and Gemini.
C1_Witness ==
    /\ data.route = "analyze-image"
    /\ gemini_model /\ openai_client
    /\ pc = "done"
    /\ Len(calls) = 2
    /\ calls[2].api = "gemini.generate_content"
    /\ calls[2].result = Return(<<" ", "f">>)
    /\ resp = Json(200, "description", <<"f">>)

\* C2: in analyze_image with a usable image_url and both handles
\* configured, after any failure of the primary attempt (fetch raising or
\* HTTP error status, Gemini raising, Gemini returning blank text) the
\* request is not answered 400 or by an unhandled error: OpenAI is invoked
\* next with the image URL and its outcome decides the response.
C2_PrimaryFailureFallsBack ==
    (/\ data.route = "analyze-image"
     /\ gemini_model /\ openai_client
     /\ \E j \in 1..Len(calls) : PrimaryFailure(calls[j])) =>
        /\ resp.status # 400
        /\ \/ pc = "openai_vision" /\ resp = NoResp
           \/ /\ pc = "done"
              /\ LET c == calls[Len(calls)]
                 IN  /\ c.api = "openai.chat.completions.create"
                     /\ c.arg = <<VisionInstruction>> \o ImageUrl(data)
                     /\ PrimaryFailure(calls[Len(calls) - 1])
                     /\ SecondaryAnswer(c, resp)

\* C2 witness: the fetch raised, OpenAI was then called with the URL and
\* returned text, and the answer is 200.
C2_Witness ==
    /\ data.route = "analyze-image"
    /\ gemini_model /\ openai_client
    /\ pc = "done"
    /\ Len(calls) = 2
    /\ calls[1].api = "requests.get" /\ calls[1].result.kind = "raise"
    /\ calls[2].api = "openai.chat.completions.create"
    /\ calls[2].arg = <<VisionInstruction, "f">>
    /\ calls[2].result = Return(<<"f">>)
    /\ resp = Json(200, "description", <<"f">>)

\* C3: in analyze_image with a usable image_url and neither handle
\* configured, the request is answered 500 "No available AI provider for
\* image analysis." and no outbound call is made.
C3_NoProviderNoCalls ==
    (/\ data.route = "analyze-image"
     /\ ~gemini_model /\ ~openai_client
     /\ data.image_url \notin {Absent, Null}
     /\ ~IsBlank(data.image_url)) =>
        /\ calls = <<>>
        /\ pc = "done"
        /\ resp = Json(500, "error", <<"No available AI provider for image analysis.">>)

\* C3 witness: such a request has been answered.
C3_Witness ==
    /\ data.route = "analyze-image"
    /\ ~gemini_model /\ ~openai_client
    /\ data.image_url = <<"f">>
    /\ pc = "done"
    /\ resp.status = 500
    /\ calls = <<>>

\* The provider method generate_caption is to use for the request.
SelectedApi ==
    IF data.model_choice = "gemini" THEN "gemini.generate_content"
    ELSE "openai.chat.completions.create"

\* The handle of that provider is a client.
SelectedConfigured ==
    IF data.model_choice = "gemini" THEN gemini_model ELSE openai_client

\* C4: generate_caption calls at most one text backend per request, always
\* the selected one (Gemini iff model_choice is 'gemini', OpenAI for every
\* other value and for an absent one); a selected backend that is not
\* configured is not called, and that or a raising backend ends the request
\* in a failure response without the other backend being called.
C4_OneSelectedBackend ==
    data.route = "generate-caption" =>
        /\ Len(calls) <= 1
        /\ \A i \in 1..Len(calls) : calls[i].api = SelectedApi
        /\ ~SelectedConfigured => calls = <<>>
        /\ (pc = "done" /\ data.topic # Absent /\ ~SelectedConfigured) =>
            resp.status = 500 /\ resp.key = "error"
        /\ (pc = "done" /\ calls # <<>> /\ calls[1].result.kind = "raise") =>
            resp.status = 500 /\ resp.key = "error"
        /\ pc = "done" => resp # NoResp

\* C4 witness: model_choice 'gemini', both handles configured, Gemini
\* raised, the answer is 500 and OpenAI was not called.
C4_Witness ==
    /\ data.route = "generate-caption"
    /\ data.model_choice = "gemini"
    /\ gemini_model /\ openai_client
    /\ pc = "done"
    /\ Len(calls) = 1
    /\ calls[1].api = "gemini.generate_content"
    /\ calls[1].result.kind = "raise"
    /\ resp.status = 500

\* C5: for a contentType outside {Caption, Hook, CTA, Hashtags}, and for an
\* absent one, the prompt generate_caption builds is the prompt it builds
\* for contentType 'Caption' with every other field equal.
C5_UnknownContentTypeIsCaption ==
    (/\ data.route = "generate-caption"
     /\ data.topic # Absent
     /\ data.contentType \notin {"Caption", "Hook", "CTA", "Hashtags"}) =>
        prompt = BuildPrompt([data EXCEPT !.contentType = "Caption"])

\* The prompt of a generate_image request is absent, empty or whitespace.
BlankImagePrompt ==
    /\ data.route = "generate-image"
    /\ data.prompt = Absent \/ IsBlank(data.prompt)

\* C6 as stated: every generate_image request with an absent, empty or
\* whitespace-only prompt is answered 400 without the image backend being
\* invoked, whether or not the OpenAI handle is configured.
C6_BlankPromptAlways400 ==
    BlankImagePrompt =>
        /\ pc = "done"
        /\ calls = <<>>
        /\ resp.status = 400

\* C6 amended: such a request never invokes the image backend; it is
\* answered 400 "Image prompt is required" when the OpenAI handle is
\* configured and 500 "OpenAI client is not configured." when it is not.
C6_BlankPromptNoBackend ==
    BlankImagePrompt =>
        /\ pc = "done"
        /\ calls = <<>>
        /\ openai_client => resp = Json(400, "error", <<"Image prompt is required">>)
        /\ ~openai_client =>
            resp = Json(500, "error", <<"OpenAI client is not configured.">>)

\* C6 witness: a whitespace-only prompt with the handle configured is
\* answered 400.
C6_Witness ==
    /\ data.route = "generate-image"
    /\ data.prompt = <<" ">>
    /\ openai_client
    /\ pc = "done"
    /\ resp.status = 400
    /\ calls = <<>>

\* C7: in generate_caption a backend call that returns empty or
\* whitespace-only text (or None) is answered 502 "Empty response", a
\* raising one 500, and a 200 response carries a caption that is the
\* returned text trimmed and is not empty.
C7_EmptyResponseIs502 ==
    (data.route = "generate-caption" /\ pc = "done") =>
        /\ \A i \in 1..Len(calls) :
            /\ (calls[i].result.kind = "return" /\ IsBlank(Returned(calls[i]))) =>
                resp = Json(502, "error", <<"Empty response from the AI model.">>)
            /\ calls[i].result.kind = "raise" => resp.status = 500
        /\ resp.status = 200 =>
            /\ resp.key = "caption"
            /\ resp.val # <<>>
            /\ ~IsBlank(resp.val)
            /\ calls # <<>> /\ IsTrimOf(resp.val, Returned(calls[1]))

\* C7 witness: OpenAI returned " " and the answer is 502.
C7_Witness ==
    /\ data.route = "generate-caption"
    /\ pc = "done"
    /\ Len(calls) = 1
    /\ calls[1].api = "openai.chat.completions.create"
    /\ calls[1].result = Return(<<" ">>)
    /\ resp.status = 502

\* C8: in generate_caption a request whose topic is missing or empty is
\* answered 400 before any backend call, so the topic of a request that
\* reaches prompt construction or a backend is not empty.
C8_TopicNonEmpty ==
    data.route = "generate-caption" =>
        /\ data.topic \in {Absent, <<>>} =>
            pc = "done" /\ resp.status = 400 /\ calls = <<>>
        /\ (pc = "text_backend" \/ calls # <<>>) => data.topic \notin {Absent, <<>>}

\* C9: whenever analyze_image has invoked OpenAI, the response is decided
\* by that call alone: non-blank text t gives 200 {description: t trimmed},
\* blank text or None gives 502 "Empty response", an exception gives 500
\* "Failed to analyze image." whatever the exception.
C9_SecondaryDecides ==
    (data.route = "analyze-image" /\ CallsTo("openai.chat.completions.create") # {}) =>
        /\ pc = "done"
        /\ calls[Len(calls)].api = "openai.chat.completions.create"
        /\ SecondaryAnswer(calls[Len(calls)], resp)
        /\ (~gemini_model /\ calls[1].result = Return(<<"f">>)) =>
            resp = Json(200, "description", <<"f">>)

\* C9 witness: Gemini not configured, OpenAI returned "f", the answer is
\* 200 {description: "f"}.
C9_Witness ==
    /\ data.route = "analyze-image"
    /\ ~gemini_model /\ openai_client
    /\ pc = "done"
    /\ Len(calls) = 1
    /\ calls[1].api = "openai.chat.completions.create"
    /\ calls[1].result = Return(<<"f">>)
    /\ resp = Json(200, "description", <<"f">>)

\* The name of the provider behind a provider method.
ProviderName(api) == IF api = "gemini.generate_content" THEN "gemini" ELSE "openai"

\* C10: when the text backend generate_caption invoked raises, the answer
\* is 500 with the message naming the provider that was invoked, the same
\* whatever the exception carries.
C10_ErrorNamesInvokedProvider ==
    (/\ data.route = "generate-caption"
     /\ pc = "done"
     /\ calls # <<>>
     /\ calls[1].result.kind = "raise") =>
        resp = Json(500, "error",
                    <<"An error occurred with the ", ProviderName(calls[1].api), " API.">>)

====
